---------------------------- MODULE Spec2Model ----------------------------
(***************************************************************************)
(* Model of src/main.py: class LongTermDeferredExpense, a straight-line    *)
(* amortization schedule whose amounts are Python floats (IEEE-754 binary64*)
(* values).  The arithmetic of the class (total_cost / months, round(., 2),*)
(* min, -=, <= 0) is modelled bit for bit: a float is a sign, a 53-bit     *)
(* significand and a binary exponent, and every operation rounds to        *)
(* nearest, ties to even, as the hardware and CPython do.                  *)
(***************************************************************************)
EXTENDS Integers, Sequences, FiniteSets, TLC

(***************************************************************************)
(* Bounds of the model.                                                    *)
(***************************************************************************)
MaxCents   == 20   \* total_cost ranges over -0.01, 0.00, 0.01 .. MaxCents / 100
MaxPeriods == 4    \* amortization_period_months ranges over -1 .. MaxPeriods
MaxCalls   == 5    \* method calls the client makes on the constructed asset
MaxDate    == 2    \* the client passes dates among 1 .. MaxDate

(***************************************************************************)
(* Natural numbers of arbitrary size: sequences of limbs of LimbBits bits, *)
(* least significant limb first, without a most significant 0 (zero is the *)
(* empty sequence).  Bits are numbered from 1, the least significant.      *)
(***************************************************************************)
LimbBits == 15
Base     == 2 ^ LimbBits

Limb(a, i) == IF i >= 1 /\ i <= Len(a) THEN a[i] ELSE 0

BNorm(a) ==
    LET nz == {i \in 1..Len(a) : a[i] # 0}
    IN  IF nz = {} THEN <<>>
        ELSE SubSeq(a, 1, CHOOSE i \in nz : \A j \in nz : j <= i)

RECURSIVE BFromInt(_)
BFromInt(n) == IF n = 0 THEN <<>> ELSE <<n % Base>> \o BFromInt(n \div Base)

\* number of bits of a: 0 for zero
BLen(a) ==
    IF a = <<>> THEN 0
    ELSE (Len(a) - 1) * LimbBits
         + (CHOOSE k \in 1..LimbBits : 2 ^ (k - 1) <= a[Len(a)] /\ a[Len(a)] < 2 ^ k)

BBit(a, i) ==
    IF i < 1 THEN 0
    ELSE (Limb(a, ((i - 1) \div LimbBits) + 1) \div 2 ^ ((i - 1) % LimbBits)) % 2

\* a * 2^k
BShl(a, k) ==
    LET q == k \div LimbBits
        r == k % LimbBits
    IN  BNorm([j \in 1..(Len(a) + q + 1) |->
                  (Limb(a, j - q) % 2 ^ (LimbBits - r)) * 2 ^ r
                  + (Limb(a, j - q - 1) \div 2 ^ (LimbBits - r))])

\* a \div 2^k
BShr(a, k) ==
    LET q == k \div LimbBits
        r == k % LimbBits
    IN  IF q >= Len(a) THEN <<>>
        ELSE BNorm([j \in 1..(Len(a) - q) |->
                      (Limb(a, j + q) \div 2 ^ r)
                      + (Limb(a, j + q + 1) % 2 ^ r) * 2 ^ (LimbBits - r)])

\* -1, 0, 1 as a < b, a = b, a > b
BCmp(a, b) ==
    IF Len(a) # Len(b) THEN (IF Len(a) < Len(b) THEN -1 ELSE 1)
    ELSE LET diff == {i \in 1..Len(a) : a[i] # b[i]}
         IN  IF diff = {} THEN 0
             ELSE LET h == CHOOSE i \in diff : \A j \in diff : j <= i
                  IN  IF a[h] < b[h] THEN -1 ELSE 1

\* some bit among the k least significant ones of a is set
BLowBits(a, k) == BCmp(BShl(BShr(a, k), k), a) # 0

RECURSIVE BAddR(_, _, _, _)
BAddR(a, b, i, c) ==
    IF i > Len(a) /\ i > Len(b)
    THEN (IF c = 0 THEN <<>> ELSE <<c>>)
    ELSE LET s == Limb(a, i) + Limb(b, i) + c
         IN  <<s % Base>> \o BAddR(a, b, i + 1, s \div Base)

BAdd(a, b) == BAddR(a, b, 1, 0)

\* a - b for a >= b
RECURSIVE BSubR(_, _, _, _)
BSubR(a, b, i, c) ==
    IF i > Len(a) THEN <<>>
    ELSE LET s == Limb(a, i) - Limb(b, i) - c
         IN  <<IF s < 0 THEN s + Base ELSE s>>
             \o BSubR(a, b, i + 1, IF s < 0 THEN 1 ELSE 0)

BSub(a, b) == BNorm(BSubR(a, b, 1, 0))

\* a * m for a small integer 0 < m < Base
RECURSIVE BMulR(_, _, _, _)
BMulR(a, m, i, c) ==
    IF i > Len(a) THEN BFromInt(c)
    ELSE LET s == a[i] * m + c
         IN  <<s % Base>> \o BMulR(a, m, i + 1, s \div Base)

BMul(a, m) == BMulR(a, m, 1, 0)

\* quotient and remainder of a by a small integer 0 < d < Base
RECURSIVE BDivR(_, _, _, _)
BDivR(a, d, i, r) ==
    IF i = 0 THEN [q |-> <<>>, r |-> r]
    ELSE LET t    == r * Base + a[i]
             rest == BDivR(a, d, i - 1, t % d)
         IN  [q |-> Append(rest.q, t \div d), r |-> rest.r]

BDiv(a, d) == LET qr == BDivR(a, d, Len(a), 0) IN [q |-> BNorm(qr.q), r |-> qr.r]

(***************************************************************************)
(* binary64 values: [neg, mant, exp] stands for (-1)^neg * mant * 2^exp,   *)
(* mant either zero or of exactly Precision bits.  The model's amounts stay *)
(* far from the subnormal and the overflow range, which are left out.      *)
(***************************************************************************)
Precision == 53

FZero == [neg |-> FALSE, mant |-> <<>>, exp |-> 0]

\* the float nearest to (-1)^neg * (a + fraction) * 2^e, ties to even, the
\* fraction being nonzero iff sticky; the caller keeps a longer than
\* Precision bits whenever sticky is set
RoundToFloat(neg, a, e, sticky) ==
    IF a = <<>> THEN [neg |-> neg, mant |-> <<>>, exp |-> 0]
    ELSE IF BLen(a) <= Precision
    THEN [neg |-> neg, mant |-> BShl(a, Precision - BLen(a)),
          exp |-> e - (Precision - BLen(a))]
    ELSE LET k    == BLen(a) - Precision
             kept == BShr(a, k)
             half == BBit(a, k) = 1
             rest == sticky \/ BLowBits(a, k - 1)
             up   == half /\ (rest \/ BBit(kept, 1) = 1)
             r    == IF up THEN BAdd(kept, <<1>>) ELSE kept
         IN  IF BLen(r) > Precision
             THEN [neg |-> neg, mant |-> BShr(r, 1), exp |-> e + k + 1]
             ELSE [neg |-> neg, mant |-> r, exp |-> e + k]

\* the float nearest to (-1)^neg * a * 2^e / d, for an integer d > 0: the
\* quotient is taken with two bits more than the significand holds and the
\* remainder decides the rounding (IEEE-754 correctly rounded division)
FQuot(neg, a, e, d) ==
    LET s  == Precision + 2 + BLen(BFromInt(d))
        qr == BDiv(BShl(a, s), d)
    IN  RoundToFloat(neg, qr.q, e - s, qr.r # 0)

\* the float a caller writes as the decimal c / 100 (120000.00 is 12000000
\* cents): the binary64 value nearest to it
FromCents(c) == FQuot(c < 0, BFromInt(IF c < 0 THEN -c ELSE c), 0, 100)

\* x / n for a float x and a positive int n (the int converts exactly)
FDiv(x, n) == FQuot(x.neg, x.mant, x.exp, n)

FIsZero(x) == x.mant = <<>>

\* order of the magnitudes: -1, 0, 1
FMagCmp(x, y) ==
    IF FIsZero(x) \/ FIsZero(y)
    THEN (IF FIsZero(x) /\ FIsZero(y) THEN 0 ELSE IF FIsZero(x) THEN -1 ELSE 1)
    ELSE IF x.exp # y.exp THEN (IF x.exp < y.exp THEN -1 ELSE 1)
    ELSE BCmp(x.mant, y.mant)

\* x < y
FLt(x, y) ==
    IF FIsZero(x) /\ FIsZero(y) THEN FALSE
    ELSE IF FIsZero(x) THEN ~y.neg
    ELSE IF FIsZero(y) THEN x.neg
    ELSE IF x.neg # y.neg THEN x.neg
    ELSE IF x.neg THEN FMagCmp(x, y) = 1
    ELSE FMagCmp(x, y) = -1

\* x < 0 where the code tests x <= 0
FLe0_StrictlyNegative(x) == x.neg /\ x.mant # <<>>

\* x <= 0
FLe0(x) == FIsZero(x) \/ x.neg

\* a min that does not cap: the periodic amount whatever the book value
FMin_SecondAlways(x, y) == y

\* Python's min(x, y): the first argument unless the second is smaller
FMin(x, y) == IF FLt(y, x) THEN y ELSE x

\* x + y where the code subtracts, for x and y of one sign
FSub_Adds(x, y) ==
    LET e == IF x.mant = <<>> THEN y.exp ELSE IF y.mant = <<>> THEN x.exp
             ELSE IF x.exp < y.exp THEN x.exp ELSE y.exp
    IN  IF y.mant = <<>> THEN x
        ELSE IF x.mant = <<>> THEN y
        ELSE RoundToFloat(x.neg, BAdd(BShl(x.mant, x.exp - e),
                                      BShl(y.mant, y.exp - e)), e, FALSE)

\* x - y, rounded to nearest
FSub(x, y) ==
    LET e  == IF FIsZero(x) THEN y.exp ELSE IF FIsZero(y) THEN x.exp
              ELSE IF x.exp < y.exp THEN x.exp ELSE y.exp
        a  == BShl(x.mant, x.exp - e)
        b  == BShl(y.mant, y.exp - e)
        yn == ~y.neg             \* the sign of -y
    IN  IF FIsZero(y) THEN x
        ELSE IF FIsZero(x) THEN [y EXCEPT !.neg = yn]
        ELSE IF x.neg = yn THEN RoundToFloat(x.neg, BAdd(a, b), e, FALSE)
        ELSE IF BCmp(a, b) = 0 THEN FZero
        ELSE IF BCmp(a, b) = 1 THEN RoundToFloat(x.neg, BSub(a, b), e, FALSE)
        ELSE RoundToFloat(yn, BSub(b, a), e, FALSE)

\* Python's round(x, 2): the exact value of x is rounded to two decimals,
\* ties to even, and the float nearest to that decimal is returned
PyRound2(x) ==
    IF FIsZero(x) \/ x.exp >= 0 THEN x
    ELSE LET m    == BMul(x.mant, 100)          \* |x| * 100 = m * 2^exp
             f    == -x.exp
             int  == BShr(m, f)
             half == BBit(m, f) = 1
             rest == BLowBits(m, f - 1)
             up   == half /\ (rest \/ BBit(int, 1) = 1)
             n    == IF up THEN BAdd(int, <<1>>) ELSE int
         IN  FQuot(x.neg, n, 0, 100)

(***************************************************************************)
(* The program state.                                                      *)
(*   args    the arguments passed to the constructor                       *)
(*   pc      "new" before the constructor ran, "ready" once it returned,   *)
(*           "ValueError" once it raised                                   *)
(*   self    the attributes of the LongTermDeferredExpense object, by name *)
(*           (no attribute exists before __init__ assigns it)              *)
(*   stdout  the blocks printed so far, by kind                            *)
(*   calls   the calls of amortize_for_period and get_status made by the   *)
(*           caller so far                                                 *)
(*   frame   the local variables of the driver of the object: those of     *)
(*           main() and its position when main() drives it, the outcome of *)
(*           the first run when the same asset is run twice                *)
(* A date is the number of months from 2025-01-01 to it: the class only    *)
(* stores and prints dates, and main() passes first days of months.        *)
(***************************************************************************)
VARIABLES args, pc, self, stdout, calls, frame

vars == <<args, pc, self, stdout, calls, frame>>

Dates == 1..MaxDate

\* the costs a caller passes: cents / 100 for the cents below, 100.00 among them
CostCents == (-1..MaxCents) \cup {10000}

Periods == -1..MaxPeriods

NoAttributes == <<>>

NoFrame == <<>>

Init ==
    /\ args \in [name : {"renovation"},
                 total_cost : {FromCents(c) : c \in CostCents},
                 amortization_period_months : Periods,
                 start_date : {0}]
    /\ pc = "new"
    /\ self = NoAttributes
    /\ stdout = <<>>
    /\ calls = 0
    /\ frame = NoFrame

\* a constructor that validates the period only after it assigned the
\* attributes given by its arguments
Construct_ValidatesLate ==
    /\ pc = "new"
    /\ IF args.amortization_period_months <= 0
       THEN /\ self' = [name |-> args.name,
                        total_cost |-> args.total_cost,
                        amortization_period_months |-> args.amortization_period_months,
                        start_date |-> args.start_date,
                        book_value |-> args.total_cost]
            /\ pc' = "ValueError"
            /\ UNCHANGED stdout
       ELSE /\ self' = [name |-> args.name,
                        total_cost |-> args.total_cost,
                        amortization_period_months |-> args.amortization_period_months,
                        start_date |-> args.start_date,
                        book_value |-> args.total_cost,
                        monthly_amortization_amount |->
                            PyRound2(FDiv(args.total_cost,
                                          args.amortization_period_months)),
                        amortization_history |-> <<>>]
            /\ stdout' = Append(stdout, "recognized")
            /\ pc' = "ready"
    /\ UNCHANGED <<args, calls>>

\* LongTermDeferredExpense.__init__
Construct ==
    /\ pc = "new"
    /\ IF args.amortization_period_months <= 0
       THEN /\ pc' = "ValueError"
            /\ UNCHANGED <<self, stdout>>
       ELSE /\ self' = [name |-> args.name,
                        total_cost |-> args.total_cost,
                        amortization_period_months |-> args.amortization_period_months,
                        start_date |-> args.start_date,
                        book_value |-> args.total_cost,
                        monthly_amortization_amount |->
                            PyRound2(FDiv(args.total_cost,
                                          args.amortization_period_months)),
                        amortization_history |-> <<>>]
            /\ stdout' = Append(stdout, "recognized")
            /\ pc' = "ready"
    /\ UNCHANGED <<args, calls>>

\* LongTermDeferredExpense.get_status: prints the book value after out
get_status(out) == Append(out, "status")

\* an amortize_for_period that records the periodic amount in the transaction
\* whatever amount it took off the book value
amortize_for_period_RecordsPeriodic(amortization_date) ==
    /\ pc = "ready"
    /\ calls' = calls + 1
    /\ IF FLe0(self.book_value)
       THEN /\ stdout' = Append(stdout, "already")
            /\ UNCHANGED self
       ELSE LET amount_to_amortize ==
                    FMin(self.book_value, self.monthly_amortization_amount)
                book_value == FSub(self.book_value, amount_to_amortize)
                transaction == [date |-> amortization_date,
                                amortized_amount |-> self.monthly_amortization_amount,
                                remaining_book_value |-> book_value]
            IN  /\ self' = [self EXCEPT
                               !.book_value = book_value,
                               !.amortization_history = Append(@, transaction)]
                /\ stdout' = get_status(Append(stdout, "amortized"))
    /\ UNCHANGED <<args, pc>>

\* an amortize_for_period that validates the order of the dates: a date
\* earlier than the last recorded one is refused and nothing is amortized
amortize_for_period_RejectsEarlierDates(amortization_date) ==
    /\ pc = "ready"
    /\ calls' = calls + 1
    /\ IF \/ FLe0(self.book_value)
          \/ /\ self.amortization_history # <<>>
             /\ amortization_date <
                    self.amortization_history[Len(self.amortization_history)].date
       THEN /\ stdout' = Append(stdout, "already")
            /\ UNCHANGED self
       ELSE LET amount_to_amortize ==
                    FMin(self.book_value, self.monthly_amortization_amount)
                book_value == FSub(self.book_value, amount_to_amortize)
                transaction == [date |-> amortization_date,
                                amortized_amount |-> amount_to_amortize,
                                remaining_book_value |-> book_value]
            IN  /\ self' = [self EXCEPT
                               !.book_value = book_value,
                               !.amortization_history = Append(@, transaction)]
                /\ stdout' = get_status(Append(stdout, "amortized"))
    /\ UNCHANGED <<args, pc>>

\* an amortize_for_period that spreads the remaining book value anew over the
\* period after each transaction, overwriting the periodic amount
amortize_for_period_Respreads(amortization_date) ==
    /\ pc = "ready"
    /\ calls' = calls + 1
    /\ IF FLe0(self.book_value)
       THEN /\ stdout' = Append(stdout, "already")
            /\ UNCHANGED self
       ELSE LET amount_to_amortize ==
                    FMin(self.book_value, self.monthly_amortization_amount)
                book_value == FSub(self.book_value, amount_to_amortize)
                transaction == [date |-> amortization_date,
                                amortized_amount |-> amount_to_amortize,
                                remaining_book_value |-> book_value]
            IN  /\ self' = [self EXCEPT
                               !.book_value = book_value,
                               !.monthly_amortization_amount =
                                   PyRound2(FDiv(book_value,
                                                 self.amortization_period_months)),
                               !.amortization_history = Append(@, transaction)]
                /\ stdout' = get_status(Append(stdout, "amortized"))
    /\ UNCHANGED <<args, pc>>

\* an amortize_for_period whose check of the book value prints its message
\* and does not return: the transaction is made all the same
amortize_for_period_NoReturn(amortization_date) ==
    /\ pc = "ready"
    /\ calls' = calls + 1
    /\ LET out == IF FLe0(self.book_value)
                  THEN Append(stdout, "already") ELSE stdout
           amount_to_amortize ==
               FMin(self.book_value, self.monthly_amortization_amount)
           book_value == FSub(self.book_value, amount_to_amortize)
           transaction == [date |-> amortization_date,
                           amortized_amount |-> amount_to_amortize,
                           remaining_book_value |-> book_value]
       IN  /\ self' = [self EXCEPT
                          !.book_value = book_value,
                          !.amortization_history = Append(@, transaction)]
           /\ stdout' = get_status(Append(out, "amortized"))
    /\ UNCHANGED <<args, pc>>

\* LongTermDeferredExpense.amortize_for_period
amortize_for_period(amortization_date) ==
    /\ pc = "ready"
    /\ calls' = calls + 1
    /\ IF FLe0(self.book_value)
       THEN /\ stdout' = Append(stdout, "already")
            /\ UNCHANGED self
       ELSE LET amount_to_amortize ==
                    FMin(self.book_value, self.monthly_amortization_amount)
                book_value == FSub(self.book_value, amount_to_amortize)
                transaction == [date |-> amortization_date,
                                amortized_amount |-> amount_to_amortize,
                                remaining_book_value |-> book_value]
            IN  /\ self' = [self EXCEPT
                               !.book_value = book_value,
                               !.amortization_history = Append(@, transaction)]
                /\ stdout' = get_status(Append(stdout, "amortized"))
    /\ UNCHANGED <<args, pc>>

(***************************************************************************)
(* Spec: any caller.  It constructs one asset and then calls the two       *)
(* methods in any order, with any dates, MaxCalls times at most.           *)
(***************************************************************************)
New == Construct /\ UNCHANGED frame

Amortize ==
    /\ calls < MaxCalls
    /\ \E d \in Dates : amortize_for_period(d)
    /\ UNCHANGED frame

\* a get_status call that rounds the stored book value to the two decimals
\* it prints
Status_RoundsBookValue ==
    /\ pc = "ready"
    /\ calls < MaxCalls
    /\ calls' = calls + 1
    /\ stdout' = get_status(stdout)
    /\ self' = [self EXCEPT !.book_value = PyRound2(@)]
    /\ UNCHANGED <<args, pc, frame>>

Status ==
    /\ pc = "ready"
    /\ calls < MaxCalls
    /\ calls' = calls + 1
    /\ stdout' = get_status(stdout)
    /\ UNCHANGED <<args, pc, self, frame>>

Next == New \/ Amortize \/ Status

Spec == Init /\ [][Next]_vars

(***************************************************************************)
(* MainSpec: main(), with its two parameters of the experiment (cost and   *)
(* period_in_months) drawn from the model's inputs and from main's own     *)
(* values, 120000.00 over 60 months.                                       *)
(***************************************************************************)
MainCostCents == CostCents \cup {12000000}

MainPeriods == Periods \cup {60}

MainInit ==
    /\ args \in [name : {"renovation"},
                 total_cost : {FromCents(c) : c \in MainCostCents},
                 amortization_period_months : MainPeriods,
                 start_date : {0}]
    /\ pc = "new"
    /\ self = NoAttributes
    /\ stdout = <<"hello">>
    /\ calls = 0
    /\ frame = [at |-> "construct", month_num |-> 0,
                current_date |-> args.start_date]

\* main, the constructor call
MainConstruct ==
    /\ frame.at = "construct"
    /\ Construct
    /\ frame' = [frame EXCEPT !.at = IF args.amortization_period_months <= 0
                                     THEN "raised" ELSE "begin"]

\* main, the banner before the loop and current_date = simulation_start_date
MainBegin ==
    /\ frame.at = "begin"
    /\ stdout' = Append(stdout, "banner")
    /\ frame' = [frame EXCEPT !.at = "loop", !.current_date = args.start_date]
    /\ UNCHANGED <<args, pc, self, calls>>

\* main, one iteration of  for month_num in range(period_in_months + 2)
MainIteration ==
    /\ frame.at = "loop"
    /\ frame.month_num < args.amortization_period_months + 2
    /\ LET current_date == IF frame.month_num > 0
                           THEN frame.current_date + 1
                           ELSE frame.current_date
       IN  /\ amortize_for_period(current_date)
           /\ frame' = [frame EXCEPT !.month_num = @ + 1,
                                     !.current_date = current_date]

\* main, after the loop: the totals are printed
MainFinish ==
    /\ frame.at = "loop"
    /\ frame.month_num = args.amortization_period_months + 2
    /\ stdout' = Append(stdout, "summary")
    /\ frame' = [frame EXCEPT !.at = "done"]
    /\ UNCHANGED <<args, pc, self, calls>>

MainNext == MainConstruct \/ MainBegin \/ MainIteration \/ MainFinish

MainSpec == MainInit /\ [][MainNext]_vars

(***************************************************************************)
(* TwoRunsSpec: the same asset run twice.  A caller constructs the asset,  *)
(* calls amortize_for_period MaxCalls times with any dates, keeps the      *)
(* amounts and book values it saw, then constructs the asset again from    *)
(* the same arguments and calls it again with any dates.                   *)
(***************************************************************************)
\* the amounts and balances of the history h, without its dates
Outcome(h) ==
    [i \in DOMAIN h |-> [amortized_amount |-> h[i].amortized_amount,
                         remaining_book_value |-> h[i].remaining_book_value]]

FirstRunEnds ==
    /\ pc = "ready"
    /\ DOMAIN frame = {}
    /\ calls = MaxCalls
    /\ frame' = [amounts |-> Outcome(self.amortization_history),
                 book_value |-> self.book_value]
    /\ pc' = "new"
    /\ self' = NoAttributes
    /\ stdout' = <<>>
    /\ calls' = 0
    /\ UNCHANGED args

TwoRunsNext == New \/ Amortize \/ FirstRunEnds

TwoRunsSpec == Init /\ [][TwoRunsNext]_vars

(***************************************************************************)
(* Vocabulary of the properties.  The values the floats stand for are      *)
(* compared and added exactly (no rounding): [m, e] is the number m * 2^e. *)
(***************************************************************************)
FLe(x, y) == ~FLt(y, x)

FGt0(x) == ~FLe0(x)

\* the exact value of a float x >= 0
X(x) == [m |-> x.mant, e |-> x.exp]

XAlign(u, e) == BShl(u.m, u.e - e)

XMinExp(u, v) ==
    IF u.m = <<>> THEN v.e ELSE IF v.m = <<>> THEN u.e
    ELSE IF u.e < v.e THEN u.e ELSE v.e

XAdd(u, v) ==
    LET e == XMinExp(u, v)
    IN  [m |-> BAdd(XAlign(u, e), XAlign(v, e)), e |-> e]

XCmp(u, v) == LET e == XMinExp(u, v) IN BCmp(XAlign(u, e), XAlign(v, e))

XEq(u, v) == XCmp(u, v) = 0

XLe(u, v) == XCmp(u, v) <= 0

\* k times the value u, for an integer 0 < k < Base
XTimes(u, k) == [m |-> BMul(u.m, k), e |-> u.e]

\* the exact sum of the amounts of the records lo .. hi of the history h
RECURSIVE SumRange(_, _, _)
SumRange(h, lo, hi) ==
    IF lo > hi THEN [m |-> <<>>, e |-> 0]
    ELSE IF lo = hi THEN X(h[lo].amortized_amount)
    ELSE LET mid == (lo + hi) \div 2
         IN  XAdd(SumRange(h, lo, mid), SumRange(h, mid + 1, hi))

SumAmounts(h) == SumRange(h, 1, Len(h))

\* the calls of amortize_for_period made so far: each prints one of two blocks
AmortizeCalls ==
    Cardinality({i \in DOMAIN stdout : stdout[i] \in {"amortized", "already"}})

History == self.amortization_history

\* book_value plus the recorded amounts is total_cost, exactly
Conserved ==
    IF History = <<>> THEN self.book_value = self.total_cost
    ELSE XEq(XAdd(SumAmounts(History), X(self.book_value)), X(self.total_cost))

InRange == FLe(FZero, self.book_value) /\ FLe(self.book_value, self.total_cost)

(***************************************************************************)
(* C1.  Conservation: after any sequence of calls, book_value plus the sum *)
(* of the amortized_amount of all records equals total_cost.               *)
(* The floats of the code do not keep it: a subtraction that rounds loses  *)
(* the rounding error.                                                     *)
(***************************************************************************)
C1_Conservation == pc = "ready" => Conserved

(***************************************************************************)
(* C2.  Residue absorption: when total_cost is not an exact multiple of    *)
(* the periodic amount and the periods at that amount leave a residue      *)
(* (100.00 over 3 periods of 33.33), after exactly                         *)
(* amortization_period_months calls book_value is 0, the history holds     *)
(* that many records and their amounts sum to total_cost.                  *)
(* The code takes min(book_value, periodic amount): a periodic amount that *)
(* was rounded down leaves the residue for one more call.                  *)
(***************************************************************************)
C2_ResidueAbsorbedInFinalPeriod ==
    (/\ pc = "ready"
     /\ FGt0(self.total_cost)
     /\ XCmp(XTimes(X(self.monthly_amortization_amount),
                    self.amortization_period_months),
             X(self.total_cost)) < 0
     /\ AmortizeCalls = self.amortization_period_months)
    => (/\ FIsZero(self.book_value)
        /\ Len(History) = self.amortization_period_months
        /\ XEq(SumAmounts(History), X(self.total_cost)))

(***************************************************************************)
(* C3.  Monotone termination: once amortize_for_period was called at least *)
(* ceil(total_cost / periodic amount) times, book_value is exactly 0.      *)
(* K >= ceil(total_cost / amount) is stated as K * amount >= total_cost,   *)
(* for a positive cost and a positive periodic amount.                     *)
(***************************************************************************)
C3_TerminatesWithinCeiling ==
    \A K \in 1..(MaxCalls + 1) :
        (/\ pc = "ready"
         /\ FGt0(self.total_cost)
         /\ FGt0(self.monthly_amortization_amount)
         /\ XLe(X(self.total_cost), XTimes(X(self.monthly_amortization_amount), K))
         /\ AmortizeCalls >= K)
        => FIsZero(self.book_value)

(***************************************************************************)
(* C4.  Range: 0 <= book_value <= total_cost in every state of every asset *)
(* that construction accepts.  Construction accepts a negative total_cost, *)
(* and then book_value is negative; the invariant holds of the assets      *)
(* whose total_cost is not negative.                                       *)
(***************************************************************************)
C4_Range == pc = "ready" => InRange

C4_RangeOfNonNegativeCost ==
    (pc = "ready" /\ FLe(FZero, self.total_cost)) => InRange

C4_Witness ==
    /\ pc = "ready"
    /\ Len(History) >= 2
    /\ FGt0(self.book_value)
    /\ FLt(self.book_value, self.total_cost)

(***************************************************************************)
(* C5.  Idempotent terminal state: once book_value is 0, no call changes   *)
(* the history, book_value or any other attribute of the asset.            *)
(***************************************************************************)
FullyAmortized == pc = "ready" /\ FIsZero(self.book_value)

Active == pc = "ready" /\ FGt0(self.book_value)

C5_TerminalIdempotent ==
    [][FullyAmortized => (self' = self /\ pc' = pc /\ args' = args)]_vars

C5_Witness ==
    /\ FullyAmortized
    /\ History # <<>>
    /\ Cardinality({i \in DOMAIN stdout : stdout[i] = "already"}) >= 2

(***************************************************************************)
(* C6.  book_value never increases: after every call it is at most what it *)
(* was before the call.                                                    *)
(***************************************************************************)
C6_NonIncreasing ==
    [][pc = "ready" => FLe(self'.book_value, self.book_value)]_vars

C6_Witness ==
    /\ pc = "ready"
    /\ History # <<>>
    /\ FLt(self.book_value, self.total_cost)
    /\ stdout[Len(stdout)] = "already"

(***************************************************************************)
(* C7.  Shape of the history: every record but the last one with a nonzero *)
(* amount carries the periodic amount, and the last one with a nonzero     *)
(* amount carries the smaller of the periodic amount and the book value    *)
(* just before its call.                                                   *)
(***************************************************************************)
Smaller(x, y) == IF FLt(y, x) THEN y ELSE x

\* the book value just before the call that appended record i
BookValueBefore(i) ==
    IF i = 1 THEN self.total_cost ELSE History[i - 1].remaining_book_value

\* the index of the last record with a nonzero amount, 0 if there is none
LastNonZero ==
    LET nz == {i \in DOMAIN History : ~FIsZero(History[i].amortized_amount)}
    IN  IF nz = {} THEN 0 ELSE CHOOSE i \in nz : \A j \in nz : j <= i

C7_HistoryShape ==
    pc = "ready" =>
        \A i \in DOMAIN History :
            History[i].amortized_amount =
                IF i = LastNonZero
                THEN Smaller(self.monthly_amortization_amount, BookValueBefore(i))
                ELSE self.monthly_amortization_amount

C7_Witness ==
    /\ pc = "ready"
    /\ Len(History) >= 3
    /\ LastNonZero = Len(History)
    /\ History[Len(History)].amortized_amount # self.monthly_amortization_amount

(***************************************************************************)
(* C8.  State machine: ACTIVE is book_value > 0, FULLY_AMORTIZED is        *)
(* book_value = 0.  The asset leaves ACTIVE only by a call that appends a  *)
(* record and leaves book_value at exactly 0, and it never leaves          *)
(* FULLY_AMORTIZED: the transition happens at most once.                   *)
(***************************************************************************)
C8_StateMachine ==
    [][/\ FullyAmortized => FullyAmortized'
       /\ (Active /\ ~Active') =>
              /\ FullyAmortized'
              /\ Len(History') = Len(History) + 1
              /\ FIsZero(History'[Len(History')].remaining_book_value)]_vars

C8_Witness ==
    /\ FullyAmortized
    /\ Len(History) >= 2
    /\ stdout[Len(stdout)] = "status"

(***************************************************************************)
(* C9.  Construction validation: with amortization_period_months <= 0 the  *)
(* constructor raises ValueError before it assigns any attribute or prints *)
(* the recognition; with a period of 1 or more it does not raise.          *)
(***************************************************************************)
C9_ConstructionValidation ==
    /\ pc = "ValueError" =>
           /\ args.amortization_period_months <= 0
           /\ DOMAIN self = {}
           /\ \A i \in DOMAIN stdout : stdout[i] # "recognized"
    /\ pc = "ready" => args.amortization_period_months >= 1

C9_Witness == pc = "ValueError" /\ args.amortization_period_months = 0

(***************************************************************************)
(* C10.  Exactly divisible schedule: when total_cost is                    *)
(* amortization_period_months times the periodic amount, main's loop of    *)
(* amortization_period_months + 2 calls ends with exactly                  *)
(* amortization_period_months records, each of the periodic amount, the    *)
(* last two calls printing only that the asset is fully amortized,         *)
(* book_value 0 and the amounts summing to total_cost.                     *)
(* Checked under MainSpec.                                                 *)
(***************************************************************************)
C10_ExactlyDivisibleSchedule ==
    (/\ pc = "ready"
     /\ frame.at = "done"
     /\ FGt0(self.total_cost)
     /\ XEq(XTimes(X(self.monthly_amortization_amount),
                   self.amortization_period_months),
            X(self.total_cost)))
    => (/\ Len(History) = self.amortization_period_months
        /\ \A i \in DOMAIN History :
               History[i].amortized_amount = self.monthly_amortization_amount
        /\ FIsZero(self.book_value)
        /\ SubSeq(stdout, Len(stdout) - 2, Len(stdout))
               = <<"already", "already", "summary">>
        /\ XEq(SumAmounts(History), X(self.total_cost)))

(***************************************************************************)
(* C11.  Zero-cost edge case: an asset constructed with total_cost = 0 is  *)
(* fully amortized from construction on (book_value 0, empty history), and *)
(* every amortize_for_period call only prints that it is fully amortized:  *)
(* no record is ever appended.                                             *)
(***************************************************************************)
C11_ZeroCost ==
    (pc = "ready" /\ FIsZero(self.total_cost)) =>
        /\ FullyAmortized
        /\ History = <<>>
        /\ \A i \in DOMAIN stdout : stdout[i] # "amortized"

C11_Witness ==
    /\ pc = "ready"
    /\ FIsZero(self.total_cost)
    /\ Cardinality({i \in DOMAIN stdout : stdout[i] = "already"}) >= 2

(***************************************************************************)
(* C12.  Single-period asset: with amortization_period_months = 1 the      *)
(* periodic amount equals total_cost, and the first amortize_for_period    *)
(* call amortizes the whole total_cost: book_value 0 and exactly one       *)
(* record.  As stated, for any total_cost: it fails for a total_cost of 0  *)
(* or less, where the first call appends nothing.  It holds for a positive *)
(* total_cost (the model's costs are whole numbers of cents).              *)
(***************************************************************************)
SinglePeriodDone ==
    /\ self.monthly_amortization_amount = self.total_cost
    /\ AmortizeCalls >= 1 =>
           /\ FIsZero(self.book_value)
           /\ Len(History) = 1
           /\ History[1].amortized_amount = self.total_cost

C13_DateIndependence ==
    (pc = "ready" /\ DOMAIN frame # {}) =>
        /\ Len(History) <= Len(frame.amounts)
        /\ \A i \in DOMAIN History : Outcome(History)[i] = frame.amounts[i]
        /\ calls = MaxCalls =>
               /\ Len(History) = Len(frame.amounts)
               /\ self.book_value = frame.book_value

\* a second run completed with dates that go back and forth
C13_Witness ==
    /\ pc = "ready"
    /\ DOMAIN frame # {}
    /\ calls = MaxCalls
    /\ Len(History) >= 3
    /\ History[1].date > History[2].date
    /\ History[2].date < History[3].date

(***************************************************************************)
(* C14.  get_status is a pure read: a call of it prints the status and     *)
(* changes no attribute of the asset, neither book_value nor the history,  *)
(* and it does not fail (the asset stays usable).                          *)
(***************************************************************************)
\* the get_status calls made by the caller: a status block that does not
\* close the block of a transaction
DirectStatusCalls ==
    {i \in DOMAIN stdout : i > 1 /\ stdout[i] = "status"
                                 /\ stdout[i - 1] # "amortized"}

C14_GetStatusPureRead ==
    [][stdout' = Append(stdout, "status") =>
           (self' = self /\ pc' = pc /\ args' = args)]_vars

C14_Witness ==
    /\ Active
    /\ History # <<>>
    /\ DirectStatusCalls # {}

(***************************************************************************)
(* C15.  A call of amortize_for_period made while book_value > 0 appends   *)
(* exactly one record at the end of the history: its date is the date      *)
(* passed, its amount the smaller of the book value before the call and    *)
(* the periodic amount, its balance the book value after the call.  The    *)
(* records before it keep their places and contents.  (Stated of main(),   *)
(* where the date passed is main's current_date.)                          *)
(***************************************************************************)
C15_AppendsOneRecord ==
    [][(/\ frame.at = "loop"
        /\ frame'.month_num = frame.month_num + 1
        /\ FGt0(self.book_value))
       => History' = Append(History,
              [date |-> frame'.current_date,
               amortized_amount |->
                   Smaller(self.book_value, self.monthly_amortization_amount),
               remaining_book_value |-> self'.book_value])]_vars

C15_Witness ==
    /\ frame.at = "loop"
    /\ pc = "ready"
    /\ Len(History) >= 2
    /\ History[Len(History)].date = frame.current_date
    /\ History[Len(History)].amortized_amount # self.monthly_amortization_amount

(***************************************************************************)
(* C16.  Immutable fields: no call of amortize_for_period or get_status    *)
(* changes name, total_cost, amortization_period_months, start_date or     *)
(* monthly_amortization_amount.                                            *)
(***************************************************************************)
Fixed(o) ==
    <<o.name, o.total_cost, o.amortization_period_months, o.start_date,
      o.monthly_amortization_amount>>

C16_ImmutableFields == [][pc = "ready" => Fixed(self') = Fixed(self)]_vars

C16_Witness ==
    /\ FullyAmortized
    /\ Len(History) >= 2
    /\ DirectStatusCalls # {}
    /\ Fixed(self)[2] = args.total_cost

(***************************************************************************)
(* C17.  Notification ordering: nothing is printed before the asset is     *)
(* constructed; a successful construction prints one recognition block,    *)
(* first; each later call prints one block: a transaction block, followed  *)
(* by the status, for a call that appended a record, the fully-amortized   *)
(* message for a call that did not.  The transaction blocks are as many as *)
(* the records of the history.                                             *)
(***************************************************************************)
Count(msg) == Cardinality({i \in DOMAIN stdout : stdout[i] = msg})

C17_NotificationOrdering ==
    /\ pc # "ready" => stdout = <<>>
    /\ pc = "ready" =>
           /\ stdout # <<>>
           /\ stdout[1] = "recognized"
           /\ Count("recognized") = 1
           /\ Count("amortized") = Len(History)
           /\ \A i \in DOMAIN stdout :
                  stdout[i] = "amortized" =>
                      (i < Len(stdout) /\ stdout[i + 1] = "status")
           /\ Count("amortized") + Count("already")
                  + Cardinality(DirectStatusCalls) = calls
           /\ Count("already") > 0 => FLe0(self.book_value)
           /\ \A i, j \in DOMAIN stdout :
                  (stdout[i] = "already" /\ stdout[j] = "amortized") => j < i

C17_Witness ==
    /\ pc = "ready"
    /\ Count("amortized") >= 2
    /\ Count("already") >= 1
    /\ DirectStatusCalls # {}

(***************************************************************************)
(* C18.  Strict progress: for an asset with total_cost > 0, every call of  *)
(* amortize_for_period made while book_value > 0 lowers book_value: every  *)
(* record has an amount > 0 and a balance below the book value before it.  *)
(***************************************************************************)
C18_StrictProgress ==
    (pc = "ready" /\ FGt0(self.total_cost)) =>
        \A i \in DOMAIN History :
            /\ FGt0(History[i].amortized_amount)
            /\ FLt(History[i].remaining_book_value, BookValueBefore(i))

(***************************************************************************)
(* C19.  Chained record balances: the balance of the first record is       *)
(* total_cost minus its amount, the balance of each later record is the    *)
(* balance of the record before it minus its own amount (minus being the   *)
(* subtraction of the floats, as the program computes it), and the balance *)
(* of the last record is the current book_value.                           *)
(***************************************************************************)
C19_ChainedBalances ==
    pc = "ready" =>
        /\ \A i \in DOMAIN History :
               History[i].remaining_book_value =
                   FSub(BookValueBefore(i), History[i].amortized_amount)
        /\ History # <<>> =>
               History[Len(History)].remaining_book_value = self.book_value

C19_Witness ==
    /\ pc = "ready"
    /\ Len(History) >= 3
    /\ ~FIsZero(History[1].remaining_book_value)
    /\ \E i \in DOMAIN History : FIsZero(History[i].amortized_amount)

=============================================================================
